---- MODULE Spec2Model ----
(***************************************************************************)
(* Tier routing engine of zip-routing-api (src/app.py): the ZIP index      *)
(* cache, the business-hours gate, the per-tier hourly rate counters, the  *)
(* fallback resolver get_best_tier, the recorder update_analytics under    *)
(* data_lock, the /call-event handler handle_call and the /analytics       *)
(* reader.  Worker threads interleave at every access to shared state.     *)
(***************************************************************************)
EXTENDS Integers, Sequences, FiniteSets, TLC

VARIABLES
    now,            \* wall clock, in whole hours since an epoch (UTC)
    tier_config,    \* app.py:23   the TIER_CONFIG dict the process runs with
    clock_env,      \* the clocks of the deployment: whether the US zones are on
                    \* daylight time, and the zone of the server's local time
    _zip_cache,     \* app.py:51   None, or the loaded tier_data
    _call_history,  \* app.py:52   deque(maxlen=10000) of call_data records
    _call_counts,   \* app.py:53   tier -> hour -> count, as a read returns it
    count_dict,     \* app.py:53   per key of _call_counts: the inner dict bound
                    \* under it, named by who built it; NoDict while the key is missing
    _analytics,     \* app.py:54   aggregate counters
    data_lock,      \* app.py:67   the thread holding the lock, 0 when free
    pc,             \* per thread: position in handle_call / update_analytics
    body,           \* per thread: the request body being handled
    call_data,      \* per thread: the call_data dict of handle_call
    zip_data,       \* per thread: handle_call's local zip_data
    original_tier,  \* per thread: handle_call's original_tier
    current_tier,   \* per thread: get_best_tier's current_tier
    iters,          \* per thread: iterations of get_best_tier's while loop
    in_except,      \* per thread: control is inside the except block (547-560)
    ua_tmp,         \* per thread: update_analytics' current_hour and the count read at 189
    attempted,      \* per thread: offer ids of the bid requests posted (491)
    response,       \* per thread: HTTP status handle_call returned
    rd_pc,          \* the /analytics reader's position in get_analytics
    rd_seen,        \* what get_analytics has read so far
    mon_pc          \* the /health or dashboard request's position in load_all_zip_data

vars == <<now, tier_config, clock_env, _zip_cache, _call_history, _call_counts, count_dict, _analytics, data_lock,
          pc, body, call_data, zip_data, original_tier, current_tier, iters,
          in_except, ua_tmp, attempted, response, rd_pc, rd_seen, mon_pc>>

shared == <<_zip_cache, _call_history, _call_counts, count_dict, _analytics, data_lock>>

(***************************************************************************)
(* Bounds of the model.                                                    *)
(***************************************************************************)
MaxThreads == 2
MaxClock == 26

Threads == 1..MaxThreads

None == "None"
Absent == "<absent>"      \* a key a dict does not hold
NoZip == <<>>             \* the same, for the zip_code key

(***************************************************************************)
(* Configuration, app.py:23-52.                                            *)
(***************************************************************************)
TIER_CONFIG ==
    [tier_1 |-> [offer_id |-> "11558", hours |-> [start |-> 9, end |-> 21],
                 timezone |-> "US/Eastern", max_calls_per_hour |-> 100,
                 fallback_tier |-> "tier_2"],
     tier_2 |-> [offer_id |-> "11558", hours |-> [start |-> 8, end |-> 22],
                 timezone |-> "US/Central", max_calls_per_hour |-> 80,
                 fallback_tier |-> "tier_3"],
     tier_3 |-> [offer_id |-> "11558", hours |-> [start |-> 7, end |-> 23],
                 timezone |-> "US/Pacific", max_calls_per_hour |-> 60,
                 fallback_tier |-> None]]

Tiers == DOMAIN TIER_CONFIG

\* dict iteration order of tier_data (app.py:114) and of TIER_CONFIG
TierOrder == <<"tier_1", "tier_2", "tier_3">>

HISTORY_MAXLEN == 10000

Hours == 0..23

\* keys of _call_counts and tier_stats that the handler can create
CountKeys == Tiers \cup {"none"}

(***************************************************************************)
(* Clocks.  now counts whole hours of universal time.  datetime.now() is   *)
(* the server's local time and datetime.now(tz) the time in the tier's     *)
(* zone; pytz takes the offset from the tz database, which depends on the  *)
(* date: the US zones are one hour closer to UTC on daylight time.         *)
(***************************************************************************)
\* zones a server's local time can be in
ServerZones == {"UTC", "US/Pacific"}

\* the deployments: daylight time or not, and the server's zone
ClockEnvs == [dst : BOOLEAN, server : ServerZones]

\* a deployment on standard time whose server keeps Pacific time: tier_1
\* leaves its window when the clock reaches MaxClock
WinterPacific == [dst |-> FALSE, server |-> "US/Pacific"]

\* utcoffset of zone tz on the current date, in hours
UtcOffset(tz) ==
    LET daylight == IF clock_env.dst THEN 1 ELSE 0
    IN  CASE tz = "UTC" -> 0
          [] tz = "US/Eastern" -> -5 + daylight
          [] tz = "US/Central" -> -6 + daylight
          [] tz = "US/Pacific" -> -8 + daylight

\* datetime.now(tz).hour
LocalHour(t, tz) == (t + 24 + UtcOffset(tz)) % 24

\* datetime.now().hour
ServerHour(t) == LocalHour(t, clock_env.server)

(***************************************************************************)
(* ZIP codes are digit strings, modelled as sequences of digits.           *)
(***************************************************************************)
RECURSIVE zfill(_, _)
\* str.zfill(width): left-pad with "0" up to width
zfill(s, width) == IF Len(s) >= width THEN s ELSE zfill(<<0>> \o s, width)

\* what the download and parse of the spreadsheet can produce (app.py:110-122)
DatasetA ==
    [tier_1 |-> {<<1,0,0,0,1>>}, tier_2 |-> {<<6,0,6,0,1>>}, tier_3 |-> {<<0,0,5,0,1>>}]

\* a later edition of the spreadsheet: rows moved to a better tier without
\* the old row being removed, so that a ZIP sits in the sets of two tiers
DatasetB ==
    [tier_1 |-> {<<1,0,0,0,1>>, <<6,0,6,0,1>>},
     tier_2 |-> {<<6,0,6,0,1>>, <<0,0,5,0,1>>},
     tier_3 |-> {<<0,0,5,0,1>>}]

Datasets == {DatasetA, DatasetB}

\* app.py:130
EmptyIndex == [tier_1 |-> {}, tier_2 |-> {}, tier_3 |-> {}]

\* the values of _zip_cache: None (app.py:51) or a tier_data (app.py:125)
NoCache == [is_none |-> TRUE, tier_data |-> EmptyIndex]
Cached(d) == [is_none |-> FALSE, tier_data |-> d]

\* zip_code_raw values of the requests
RawZips == {<<1,0,0,0,1>>, <<6,0,6,0,1>>, <<5,0,1>>, <<0,0,0,0,0>>}

\* request bodies: unparsable JSON, falsy JSON, a field missing, or a ZIP
Bodies ==
    {[kind |-> "malformed", zip |-> <<>>], [kind |-> "empty", zip |-> <<>>],
     [kind |-> "missing", zip |-> <<>>]}
    \cup {[kind |-> "ok", zip |-> z] : z \in RawZips}

NoBody == [kind |-> "none", zip |-> <<>>]

\* variant: the loop does not break, the last tier holding the ZIP wins
FindTierLast(zd, zip) ==
    IF \E i \in 1..Len(TierOrder) : zip \in zd[TierOrder[i]]
    THEN TierOrder[CHOOSE i \in 1..Len(TierOrder) :
                      /\ zip \in zd[TierOrder[i]]
                      /\ \A j \in (i+1)..Len(TierOrder) : zip \notin zd[TierOrder[j]]]
    ELSE None

\* app.py:451-454: first tier, in dict order, whose set holds the ZIP
FindTier(zd, zip) ==
    IF \E i \in 1..Len(TierOrder) : zip \in zd[TierOrder[i]]
    THEN TierOrder[CHOOSE i \in 1..Len(TierOrder) :
                      /\ zip \in zd[TierOrder[i]]
                      /\ \A j \in 1..(i-1) : zip \notin zd[TierOrder[j]]]
    ELSE None

(***************************************************************************)
(* The gates, app.py:132-155.                                              *)
(***************************************************************************)
\* the zone names pytz.timezone resolves; any other raises (app.py:136)
KnownZones == {"UTC", "US/Eastern", "US/Central", "US/Pacific"}

\* variant: the business-hours gate reports closed when its evaluation raises
is_business_hours_fail_closed(tier) ==
    IF tier \notin DOMAIN tier_config
          \/ tier_config[tier].timezone \notin KnownZones
    THEN FALSE
    ELSE LET config == tier_config[tier]
             current_hour == LocalHour(now, config.timezone)
         IN  config.hours.start <= current_hour /\ current_hour < config.hours.end

is_business_hours(tier) ==
    IF tier \notin DOMAIN tier_config
          \/ tier_config[tier].timezone \notin KnownZones
    THEN TRUE       \* KeyError / UnknownTimeZoneError, caught: default to open
    ELSE LET config == tier_config[tier]
             current_hour == LocalHour(now, config.timezone)
         IN  config.hours.start <= current_hour /\ current_hour < config.hours.end

\* app.py:150-155, given the count read at 149
rate_limit_ok(tier, current_count) ==
    IF tier \notin DOMAIN tier_config
          \/ "max_calls_per_hour" \notin DOMAIN tier_config[tier]
    THEN TRUE       \* KeyError, caught: default to allow
    ELSE LET max_calls == tier_config[tier].max_calls_per_hour
         IN  current_count < max_calls

\* check_rate_limit for a tier whose key _call_counts holds; with the key
\* missing, the subscript at 149 runs __missing__ first (DictFactoryReturns)
check_rate_limit(tier) ==
    LET current_hour == ServerHour(now)
        current_count == _call_counts[tier][current_hour]
    IN  rate_limit_ok(tier, current_count)

(***************************************************************************)
(* _call_counts = defaultdict(lambda: defaultdict(int)), app.py:53.  A     *)
(* subscript with a key the dict does not hold runs __missing__: it calls  *)
(* the factory, a Python lambda inside which the thread can be switched    *)
(* out, and then stores the new empty dict under the key whatever the key  *)
(* holds by then.  The inner dicts are held by reference; each is named by *)
(* the request whose factory call built it.                                *)
(***************************************************************************)
NoDict == [by |-> "nobody", req |-> 0]

DictBy(who, r) == [by |-> who, req |-> r]

\* the dicts earlier traffic left bound
PriorDict == DictBy("earlier", 0)

\* a new defaultdict(int)
EmptyCounts == [h \in Hours |-> 0]

\* key k is not in _call_counts
Missing(k) == count_dict[k] = NoDict

\* __missing__ stores the dict d its factory call built under key k
StoreNewDict(k, d) ==
    /\ count_dict' = [count_dict EXCEPT ![k] = d]
    /\ _call_counts' = [_call_counts EXCEPT ![k] = EmptyCounts]

\* the position of a monitoring request inside the factory for key k
FactoryAt(k) == "factory " \o k

\* the tiers a loop over TIER_CONFIG visits before tier t
TiersBefore(t) ==
    {TierOrder[j] : j \in {i \in 1..Len(TierOrder) : \A m \in 1..i : TierOrder[m] # t}}

(***************************************************************************)
(* State after construction (app.py:51-67), and the states earlier traffic *)
(* can have left behind: prior[t] calls already routed to tier t in the    *)
(* current clock hour, every one of them recorded.                         *)
(***************************************************************************)
\* tier t is inside its window at clock c
OpenAt(t, c) ==
    LET config == TIER_CONFIG[t]
        h == LocalHour(c, config.timezone)
    IN  config.hours.start <= h /\ h < config.hours.end

RECURSIVE ChainFrom(_)
\* the tiers get_best_tier visits after t, following fallback_tier links
ChainFrom(t) ==
    LET f == TIER_CONFIG[t].fallback_tier
    IN  IF f = None THEN <<>> ELSE <<f>> \o ChainFrom(f)

Cap(t) == TIER_CONFIG[t].max_calls_per_hour

PriorLevels(t) == {0, Cap(t) - 1, Cap(t)}

\* prior can be produced by sequential calls within clock hour c: an open
\* tier fills from its own ZIPs; a closed tier only receives last-resort
\* calls, which needs every tier after it closed or at its cap
Feasible(c, prior) ==
    \A t \in Tiers :
        (prior[t] > 0 /\ ~OpenAt(t, c)) =>
            \A i \in 1..Len(ChainFrom(t)) :
                LET s == ChainFrom(t)[i]
                IN  ~OpenAt(s, c) \/ prior[s] >= Cap(s)

ZipOf(t) == CHOOSE z \in DatasetA[t] : TRUE

\* the record an earlier successful call routed to t left in the history
PriorRecord(t, c) ==
    [req |-> 0, timestamp |-> c, status |-> "success", tier |-> t,
     zip_code |-> ZipOf(t), fallback_used |-> FALSE,
     business_hours_check |-> OpenAt(t, c), rate_limit_check |-> TRUE,
     offer_id |-> TIER_CONFIG[t].offer_id]

\* the calls of the tiers at the end of the chain come first: a closed tier
\* only receives last-resort calls, once every tier after it is full
PriorHistory(prior, c) ==
    [i \in 1..prior["tier_3"] |-> PriorRecord("tier_3", c)]
    \o [i \in 1..prior["tier_2"] |-> PriorRecord("tier_2", c)]
    \o [i \in 1..prior["tier_1"] |-> PriorRecord("tier_1", c)]

PriorTotal(prior) == prior["tier_1"] + prior["tier_2"] + prior["tier_3"]

\* every ZIP string that can key zip_stats
ZipKeys == {zfill(z, 5) : z \in RawZips} \cup UNION {DatasetA[t] : t \in Tiers}

InitShared(c, prior) ==
    /\ now = c
    /\ _zip_cache = IF PriorTotal(prior) = 0 THEN NoCache ELSE Cached(DatasetA)
    /\ _call_history = PriorHistory(prior, c)
    /\ _call_counts =
          [k \in CountKeys |->
              [h \in Hours |->
                  IF k \in Tiers /\ h = ServerHour(c) THEN prior[k] ELSE 0]]
    /\ count_dict =
          [k \in CountKeys |-> IF k \in Tiers /\ prior[k] > 0 THEN PriorDict ELSE NoDict]
    /\ _analytics =
          [total_calls |-> PriorTotal(prior),
           successful_calls |-> PriorTotal(prior),
           failed_calls |-> 0,
           tier_stats |-> [k \in CountKeys |-> IF k \in Tiers THEN prior[k] ELSE 0],
           hourly_stats |-> [h \in Hours |->
                                IF h = ServerHour(c) THEN PriorTotal(prior) ELSE 0],
           zip_stats |-> [z \in ZipKeys |->
                             IF \E t \in Tiers : z = ZipOf(t)
                             THEN prior[CHOOSE t \in Tiers : z = ZipOf(t)]
                             ELSE 0]]
    /\ data_lock = 0

\* app.py:411-418
NewCallData(r, c) ==
    [req |-> r, timestamp |-> c, status |-> "error", tier |-> Absent,
     zip_code |-> NoZip, fallback_used |-> FALSE,
     business_hours_check |-> TRUE, rate_limit_check |-> TRUE,
     offer_id |-> Absent]

NoCallData ==
    [req |-> 0, timestamp |-> 0, status |-> Absent, tier |-> Absent,
     zip_code |-> NoZip, fallback_used |-> FALSE,
     business_hours_check |-> TRUE, rate_limit_check |-> TRUE,
     offer_id |-> Absent]

NoTmp == [current_hour |-> 0, count |-> 0, dict |-> NoDict]

InitThreads ==
    /\ pc = [r \in Threads |-> "idle"]
    /\ body = [r \in Threads |-> NoBody]
    /\ call_data = [r \in Threads |-> NoCallData]
    /\ zip_data = [r \in Threads |-> EmptyIndex]
    /\ original_tier = [r \in Threads |-> None]
    /\ current_tier = [r \in Threads |-> None]
    /\ iters = [r \in Threads |-> 0]
    /\ in_except = [r \in Threads |-> FALSE]
    /\ ua_tmp = [r \in Threads |-> NoTmp]
    /\ attempted = [r \in Threads |-> {}]
    /\ response = [r \in Threads |-> 0]
    /\ rd_pc = "idle"
    /\ rd_seen = [total_calls |-> 0, counted |-> 0, history_len |-> 0]
    /\ mon_pc = "idle"

\* every tier idle, just under its cap, or at its cap
AllPriors ==
    {[tier_1 |-> a, tier_2 |-> b, tier_3 |-> c] :
        a \in PriorLevels("tier_1"), b \in PriorLevels("tier_2"),
        c \in PriorLevels("tier_3")}

NoPrior == [tier_1 |-> 0, tier_2 |-> 0, tier_3 |-> 0]

\* a cold start, the primary tier one call under its cap, the primary tier
\* saturated with its fallback one call under its cap, every tier saturated
StartPriors ==
    {NoPrior,
     [tier_1 |-> Cap("tier_1") - 1, tier_2 |-> 0, tier_3 |-> 0],
     [tier_1 |-> Cap("tier_1"), tier_2 |-> Cap("tier_2") - 1, tier_3 |-> 0],
     [tier_1 |-> Cap("tier_1"), tier_2 |-> Cap("tier_2"), tier_3 |-> Cap("tier_3")]}

\* Concurrent workers across the last clock-hour change before the horizon
Init ==
    /\ clock_env = WinterPacific
    /\ \E prior \in {p \in StartPriors : Feasible(MaxClock - 1, p)} :
          InitShared(MaxClock - 1, prior)
    /\ tier_config = TIER_CONFIG
    /\ InitThreads

\* Concurrent workers within one clock hour, in any deployment
InitSameHour ==
    /\ clock_env \in ClockEnvs
    /\ \E prior \in {p \in StartPriors : Feasible(MaxClock - 1, p)} :
          InitShared(MaxClock - 1, prior)
    /\ tier_config = TIER_CONFIG
    /\ InitThreads

\* One worker alone, in any hour of the day, after any feasible traffic
InitSeq ==
    /\ clock_env \in ClockEnvs
    /\ \E c \in Hours : \E prior \in {p \in AllPriors : Feasible(c, p)} :
          InitShared(c, prior)
    /\ tier_config = TIER_CONFIG
    /\ InitThreads

\* One worker alone on a server keeping Pacific time, in any hour of the day,
\* on standard or daylight time, after any feasible traffic
InitSeqFair ==
    /\ InitSeq
    /\ clock_env.server = "US/Pacific"

\* One worker and the clock, from a cold start, over more than a day
InitClock ==
    /\ clock_env = WinterPacific
    /\ InitShared(MaxClock - 25, NoPrior)
    /\ tier_config = TIER_CONFIG
    /\ InitThreads

\* One worker and a reader of /analytics, from a cold start in any hour
InitRead ==
    /\ clock_env \in ClockEnvs
    /\ \E c \in Hours : InitShared(c, NoPrior)
    /\ tier_config = TIER_CONFIG
    /\ InitThreads

\* the record a call whose ZIP was in no tier left in the history (456-460)
NoTierRecord(z, c) ==
    [req |-> 0, timestamp |-> c, status |-> "no_tier", tier |-> "none",
     zip_code |-> z, fallback_used |-> FALSE,
     business_hours_check |-> TRUE, rate_limit_check |-> TRUE,
     offer_id |-> Absent]

\* n calls recorded while every download of the spreadsheet failed: the two
\* oldest asked for ZIPs 10001 and 60601, the others for 00000
NoTierHistory(n, c) ==
    [i \in 1..n |->
        NoTierRecord(IF i = 1 THEN <<1,0,0,0,1>>
                     ELSE IF i = 2 THEN <<6,0,6,0,1>> ELSE <<0,0,0,0,0>>, c)]

\* lengths of the history next to its capacity
FullLevels == {HISTORY_MAXLEN - 1, HISTORY_MAXLEN}

\* clock hours in which the chain is partly open (tier_1 closed, tier_3
\* open), wholly closed, and wholly open, on standard and on daylight time
SampleHours == {3, 11, 19}

\* One worker alone, the history one short of full or full
InitHist ==
    /\ clock_env \in ClockEnvs
    /\ \E c \in SampleHours : \E n \in FullLevels :
          /\ now = c
          /\ _zip_cache = NoCache
          /\ _call_history = NoTierHistory(n, c)
          /\ _call_counts =
                [k \in CountKeys |->
                    [h \in Hours |->
                        IF k = "none" /\ h = ServerHour(c) THEN n ELSE 0]]
          /\ count_dict = [k \in CountKeys |-> IF k = "none" THEN PriorDict ELSE NoDict]
          /\ _analytics =
                [total_calls |-> n,
                 successful_calls |-> 0,
                 failed_calls |-> n,
                 tier_stats |-> [k \in CountKeys |-> IF k = "none" THEN n ELSE 0],
                 hourly_stats |-> [h \in Hours |-> IF h = ServerHour(c) THEN n ELSE 0],
                 zip_stats |-> [z \in ZipKeys |->
                                   IF z \in {<<1,0,0,0,1>>, <<6,0,6,0,1>>} THEN 1
                                   ELSE IF z = <<0,0,0,0,0>> THEN n - 2 ELSE 0]]
          /\ data_lock = 0
    /\ tier_config = TIER_CONFIG
    /\ InitThreads

\* TIER_CONFIG as an operator might edit it: tier_1 given an overnight
\* window, written with start after end
InvertedHoursConfig ==
    [TIER_CONFIG EXCEPT !["tier_1"].hours = [start |-> 21, end |-> 9]]

\* TIER_CONFIG with a zone name pytz does not know for tier_1
BadZoneConfig ==
    [TIER_CONFIG EXCEPT !["tier_1"].timezone = "US/Estern"]

\* TIER_CONFIG with tier_2's max_calls_per_hour entry left out
NoCapConfig ==
    [TIER_CONFIG EXCEPT !["tier_2"] =
        [offer_id |-> "11558", hours |-> [start |-> 8, end |-> 22],
         timezone |-> "US/Central", fallback_tier |-> "tier_3"]]

\* the configurations the module can be imported with
Configs == {TIER_CONFIG, InvertedHoursConfig, BadZoneConfig, NoCapConfig}

\* One worker alone, from a cold start, under any of the configurations:
\* nothing runs between the assignment of TIER_CONFIG (23-45) and the first
\* request
InitConfig ==
    /\ clock_env \in ClockEnvs
    /\ \E c \in SampleHours : InitShared(c, NoPrior)
    /\ tier_config \in Configs
    /\ InitThreads

\* Concurrent workers from a cold start, the clock standing still
InitLock ==
    /\ clock_env = WinterPacific
    /\ \E c \in SampleHours : InitShared(c, NoPrior)
    /\ tier_config = TIER_CONFIG
    /\ InitThreads

(***************************************************************************)
(* handle_call, app.py:407-560, one action per access to shared state.     *)
(***************************************************************************)
Goto(r, label) == pc' = [pc EXCEPT ![r] = label]

SetCallData(r, cd) == call_data' = [call_data EXCEPT ![r] = cd]

\* app.py:410-446: the request arrives, call_data is built, the body parsed
Start(r) ==
    /\ pc[r] = "idle"
    /\ \E b \in Bodies :
          /\ body' = [body EXCEPT ![r] = b]
          /\ CASE b.kind = "malformed" ->
                    \* request.get_json() raises: control enters the except block
                    /\ SetCallData(r, NewCallData(r, now))
                    /\ Goto(r, "except")
               [] b.kind \in {"empty", "missing"} ->
                    \* 423-426 and 432-435
                    /\ SetCallData(r, NewCallData(r, now))
                    /\ Goto(r, "ua_lock")
               [] b.kind = "ok" ->
                    \* 439-446
                    /\ SetCallData(r, [NewCallData(r, now) EXCEPT
                                          !.zip_code = zfill(b.zip, 5)])
                    /\ Goto(r, "load")
    /\ response' = [response EXCEPT ![r] =
                       IF body'[r].kind \in {"empty", "missing"} THEN 400 ELSE 0]
    /\ UNCHANGED <<now, tier_config, clock_env, shared, zip_data, original_tier, current_tier, iters,
                   in_except, ua_tmp, attempted, rd_pc, rd_seen, mon_pc>>

\* variant: a ZIP in no tier is raised as an error into the except block
LookupRaisesOnMiss(r, zd) ==
    LET t == FindTier(zd, call_data[r].zip_code)
    IN  /\ zip_data' = [zip_data EXCEPT ![r] = zd]
        /\ original_tier' = [original_tier EXCEPT ![r] = t]
        /\ IF t = None
           THEN /\ SetCallData(r, [call_data[r] EXCEPT !.tier = "none"])
                /\ Goto(r, "except")
                /\ UNCHANGED response
           ELSE /\ Goto(r, "gb_orig")
                /\ UNCHANGED <<call_data, response>>

\* app.py:450-465: the lookup over zip_data, and the no_tier branch
Lookup(r, zd) ==
    LET t == FindTier(zd, call_data[r].zip_code)
    IN  /\ zip_data' = [zip_data EXCEPT ![r] = zd]
        /\ original_tier' = [original_tier EXCEPT ![r] = t]
        /\ IF t = None
           THEN /\ SetCallData(r, [call_data[r] EXCEPT
                                      !.status = "no_tier", !.tier = "none"])
                /\ response' = [response EXCEPT ![r] = 200]
                /\ Goto(r, "ua_lock")
           ELSE /\ Goto(r, "gb_orig")
                /\ UNCHANGED <<call_data, response>>

\* app.py:449 with 105-106: load_all_zip_data tests the cache
LoadCached(r) ==
    /\ pc[r] = "load"
    /\ IF ~_zip_cache.is_none
       THEN Lookup(r, _zip_cache.tier_data)
       ELSE /\ Goto(r, "download")
            /\ UNCHANGED <<zip_data, original_tier, call_data, response>>
    /\ UNCHANGED <<now, tier_config, clock_env, shared, body, current_tier, iters, in_except, ua_tmp,
                   attempted, rd_pc, rd_seen, mon_pc>>

\* app.py:108-126: the download and parse succeed, the cache is assigned
DownloadOk(r) ==
    /\ pc[r] = "download"
    /\ \E d \in Datasets :
          /\ _zip_cache' = Cached(d)
          /\ Lookup(r, d)
    /\ UNCHANGED <<now, tier_config, clock_env, _call_history, _call_counts, count_dict, _analytics, data_lock, body,
                   current_tier, iters, in_except, ua_tmp, attempted, rd_pc, rd_seen, mon_pc>>

\* variant: a failed load stores the empty index it returns in the cache
DownloadFailsPoisonsCache(r) ==
    /\ pc[r] = "download"
    /\ _zip_cache' = Cached(EmptyIndex)
    /\ Lookup(r, EmptyIndex)
    /\ UNCHANGED <<now, tier_config, clock_env, _call_history, _call_counts, count_dict, _analytics, data_lock, body,
                   current_tier, iters, in_except, ua_tmp, attempted, rd_pc, rd_seen, mon_pc>>

\* app.py:128-130: the download or parse raises, an empty index is returned
DownloadFails(r) ==
    /\ pc[r] = "download"
    /\ Lookup(r, EmptyIndex)
    /\ UNCHANGED <<now, tier_config, clock_env, shared, body, current_tier, iters, in_except, ua_tmp,
                   attempted, rd_pc, rd_seen, mon_pc>>

(***************************************************************************)
(* get_best_tier, app.py:157-172.                                          *)
(***************************************************************************)
\* variant: the last tier falls back to the first, closing the chain into a cycle
FallbackOfCyclic(t) ==
    IF tier_config[t].fallback_tier = None THEN "tier_1"
    ELSE tier_config[t].fallback_tier

\* TIER_CONFIG[current_tier].get("fallback_tier"), app.py:166
FallbackOf(t) == tier_config[t].fallback_tier

\* get_best_tier returns (tier, fallback): handle_call stores both (468-471)
Return(r, tier, fallback) ==
    /\ SetCallData(r, [call_data[r] EXCEPT !.tier = tier, !.fallback_used = fallback])
    /\ Goto(r, "flags")

\* app.py:160, left operand: is_business_hours(original_tier) reads the clock
TryOriginal(r) ==
    /\ pc[r] = "gb_orig"
    /\ IF is_business_hours(original_tier[r])
       THEN /\ Goto(r, "gb_orig_rate")
            /\ UNCHANGED current_tier
       ELSE /\ current_tier' = [current_tier EXCEPT ![r] = original_tier[r]]
            /\ Goto(r, "gb_loop")
    /\ UNCHANGED <<now, tier_config, clock_env, shared, body, zip_data, original_tier,
                   call_data, iters, in_except, ua_tmp, attempted, response,
                   rd_pc, rd_seen, mon_pc>>

\* variant: the resolver forgets the rate check and looks at the window only
TryOriginalRateIgnored(r) ==
    /\ pc[r] = "gb_orig_rate"
    /\ Return(r, original_tier[r], FALSE)
    /\ UNCHANGED <<now, tier_config, clock_env, shared, body, zip_data, original_tier,
                   current_tier, iters, in_except, ua_tmp, attempted, response,
                   rd_pc, rd_seen, mon_pc>>

\* app.py:161-164, once check_rate_limit(original_tier) has returned ok
OriginalRated(r, ok) ==
    IF ok
    THEN /\ Return(r, original_tier[r], FALSE)
         /\ UNCHANGED current_tier
    ELSE /\ current_tier' = [current_tier EXCEPT ![r] = original_tier[r]]
         /\ Goto(r, "gb_loop")
         /\ UNCHANGED call_data

\* app.py:160, right operand, and 161-164: check_rate_limit(original_tier)
\* reads the clock again and the counter; a missing key sends the thread
\* into the factory of app.py:53
TryOriginalRate(r) ==
    /\ pc[r] = "gb_orig_rate"
    /\ IF Missing(original_tier[r])
       THEN /\ Goto(r, "gb_orig_factory")
            /\ UNCHANGED <<call_data, current_tier>>
       ELSE OriginalRated(r, check_rate_limit(original_tier[r]))
    /\ UNCHANGED <<now, tier_config, clock_env, shared, body, zip_data, original_tier,
                   iters, in_except, ua_tmp, attempted, response, rd_pc, rd_seen, mon_pc>>

\* app.py:165-167 up to is_business_hours(fallback_tier), and 169 when the
\* condition is already false: one iteration of the while loop begins
TryFallback(r) ==
    /\ pc[r] = "gb_loop"
    /\ current_tier[r] # None
    /\ LET fallback_tier == FallbackOf(current_tier[r])
       IN  /\ iters' = [iters EXCEPT ![r] = @ + 1]
           /\ IF fallback_tier # None /\ is_business_hours(fallback_tier)
              THEN /\ Goto(r, "gb_loop_rate")
                   /\ UNCHANGED current_tier
              ELSE /\ current_tier' = [current_tier EXCEPT ![r] = fallback_tier]
                   /\ UNCHANGED pc
    /\ UNCHANGED <<now, tier_config, clock_env, shared, body, zip_data, original_tier,
                   call_data, in_except, ua_tmp, attempted, response, rd_pc, rd_seen, mon_pc>>

\* app.py:168-169, once check_rate_limit(fallback_tier) has returned ok
FallbackRated(r, ok) ==
    LET fallback_tier == FallbackOf(current_tier[r])
    IN  IF ok
        THEN /\ Return(r, fallback_tier, TRUE)
             /\ UNCHANGED current_tier
        ELSE /\ current_tier' = [current_tier EXCEPT ![r] = fallback_tier]
             /\ Goto(r, "gb_loop")
             /\ UNCHANGED call_data

\* app.py:167, last operand, and 168-169: check_rate_limit(fallback_tier);
\* a missing key sends the thread into the factory of app.py:53
TryFallbackRate(r) ==
    /\ pc[r] = "gb_loop_rate"
    /\ IF Missing(FallbackOf(current_tier[r]))
       THEN /\ Goto(r, "gb_loop_factory")
            /\ UNCHANGED <<call_data, current_tier>>
       ELSE FallbackRated(r, check_rate_limit(FallbackOf(current_tier[r])))
    /\ UNCHANGED <<now, tier_config, clock_env, shared, body, zip_data, original_tier,
                   iters, in_except, ua_tmp, attempted, response, rd_pc, rd_seen, mon_pc>>

\* variant: an exhausted chain returns the last tier probed, as a fallback
LastResortLastTier(r) ==
    /\ pc[r] = "gb_loop"
    /\ current_tier[r] = None
    /\ LET chain == <<original_tier[r]>> \o ChainFrom(original_tier[r])
       IN  Return(r, chain[Len(chain)], TRUE)
    /\ UNCHANGED <<now, tier_config, clock_env, shared, body, zip_data, original_tier, current_tier, iters,
                   in_except, ua_tmp, attempted, response, rd_pc, rd_seen, mon_pc>>

\* variant: an exhausted chain rejects the call instead of routing it
LastResortDrops(r) ==
    /\ pc[r] = "gb_loop"
    /\ current_tier[r] = None
    /\ SetCallData(r, [call_data[r] EXCEPT
                          !.tier = original_tier[r], !.status = "rejected"])
    /\ response' = [response EXCEPT ![r] = 429]
    /\ Goto(r, "ua_lock")
    /\ UNCHANGED <<now, tier_config, clock_env, shared, body, zip_data, original_tier, current_tier, iters,
                   in_except, ua_tmp, attempted, rd_pc, rd_seen, mon_pc>>

\* app.py:165 false, then 172: the chain is exhausted
LastResort(r) ==
    /\ pc[r] = "gb_loop"
    /\ current_tier[r] = None
    /\ Return(r, original_tier[r], FALSE)
    /\ UNCHANGED <<now, tier_config, clock_env, shared, body, zip_data, original_tier, current_tier, iters,
                   in_except, ua_tmp, attempted, response, rd_pc, rd_seen, mon_pc>>

\* app.py:472: is_business_hours(best_tier) is evaluated again for the record
RecordFlags(r) ==
    /\ pc[r] = "flags"
    /\ SetCallData(r, [call_data[r] EXCEPT
                          !.business_hours_check = is_business_hours(call_data[r].tier)])
    /\ Goto(r, "flags_rate")
    /\ UNCHANGED <<now, tier_config, clock_env, shared, body, zip_data, original_tier,
                   current_tier, iters, in_except, ua_tmp, attempted, response,
                   rd_pc, rd_seen, mon_pc>>

\* app.py:473-478, once check_rate_limit(best_tier) has returned ok: the
\* offer id is taken from the configuration
FlagsRated(r, ok) ==
    /\ SetCallData(r, [call_data[r] EXCEPT
                          !.rate_limit_check = ok,
                          !.offer_id = tier_config[call_data[r].tier].offer_id])
    /\ Goto(r, "post")

\* app.py:473-478: check_rate_limit(best_tier) is evaluated again; a missing
\* key sends the thread into the factory of app.py:53
RecordFlagsRate(r) ==
    /\ pc[r] = "flags_rate"
    /\ IF Missing(call_data[r].tier)
       THEN /\ Goto(r, "flags_factory")
            /\ UNCHANGED call_data
       ELSE FlagsRated(r, check_rate_limit(call_data[r].tier))
    /\ UNCHANGED <<now, tier_config, clock_env, shared, body, zip_data, original_tier,
                   current_tier, iters, in_except, ua_tmp, attempted, response,
                   rd_pc, rd_seen, mon_pc>>

\* app.py:491-508: the bid request is posted and answers 200/201
PostSuccess(r) ==
    /\ pc[r] = "post"
    /\ attempted' = [attempted EXCEPT ![r] = @ \cup {call_data[r].offer_id}]
    /\ SetCallData(r, [call_data[r] EXCEPT !.status = "success"])
    /\ response' = [response EXCEPT ![r] = 200]
    /\ Goto(r, "ua_lock")
    /\ UNCHANGED <<now, tier_config, clock_env, shared, body, zip_data, original_tier, current_tier, iters,
                   in_except, ua_tmp, rd_pc, rd_seen, mon_pc>>

\* variant: a rejected bid request is sent again through the next tier
PostApiErrorReroutes(r) ==
    /\ pc[r] = "post"
    /\ attempted' = [attempted EXCEPT ![r] = @ \cup {call_data[r].offer_id}]
    /\ IF FallbackOf(call_data[r].tier) # None
       THEN /\ SetCallData(r, [call_data[r] EXCEPT
                                  !.tier = FallbackOf(call_data[r].tier),
                                  !.fallback_used = TRUE])
            /\ Goto(r, "flags")
            /\ UNCHANGED response
       ELSE /\ SetCallData(r, [call_data[r] EXCEPT !.status = "api_error"])
            /\ response' = [response EXCEPT ![r] = 502]
            /\ Goto(r, "ua_lock")
    /\ UNCHANGED <<now, tier_config, clock_env, shared, body, zip_data, original_tier, current_tier, iters,
                   in_except, ua_tmp, rd_pc, rd_seen, mon_pc>>

\* app.py:491-502, 527-532: the bid request answers another status
PostApiError(r) ==
    /\ pc[r] = "post"
    /\ attempted' = [attempted EXCEPT ![r] = @ \cup {call_data[r].offer_id}]
    /\ SetCallData(r, [call_data[r] EXCEPT !.status = "api_error"])
    /\ response' = [response EXCEPT ![r] = 502]
    /\ Goto(r, "ua_lock")
    /\ UNCHANGED <<now, tier_config, clock_env, shared, body, zip_data, original_tier, current_tier, iters,
                   in_except, ua_tmp, rd_pc, rd_seen, mon_pc>>

\* app.py:491-496 or 503: requests.post or response.json() raises
PostRaises(r) ==
    /\ pc[r] = "post"
    /\ attempted' = [attempted EXCEPT ![r] = @ \cup {call_data[r].offer_id}]
    /\ Goto(r, "except")
    /\ UNCHANGED <<now, tier_config, clock_env, shared, body, call_data, zip_data, original_tier,
                   current_tier, iters, in_except, ua_tmp, response, rd_pc, rd_seen, mon_pc>>

\* app.py:547-552: the except block marks the call and records it
Except(r) ==
    /\ pc[r] = "except"
    /\ in_except' = [in_except EXCEPT ![r] = TRUE]
    /\ SetCallData(r, [call_data[r] EXCEPT !.status = "exception"])
    /\ response' = [response EXCEPT ![r] = 500]
    /\ Goto(r, "ua_lock")
    /\ UNCHANGED <<now, tier_config, clock_env, shared, body, zip_data, original_tier, current_tier, iters,
                   ua_tmp, attempted, rd_pc, rd_seen, mon_pc>>

(***************************************************************************)
(* update_analytics, app.py:174-192, called at 426, 435, 460, 512, 535 and *)
(* 553.  The statements between acquire and release run under data_lock.   *)
(***************************************************************************)
\* threading.Lock: acquire blocks while another thread holds the lock
LockFree == data_lock = 0

\* app.py:176: with data_lock
AcquireLock(r) ==
    /\ pc[r] = "ua_lock"
    /\ LockFree
    /\ data_lock' = r
    /\ Goto(r, "ua_177")
    /\ UNCHANGED <<now, tier_config, clock_env, _zip_cache, _call_history, _call_counts, count_dict, _analytics, body,
                   call_data, zip_data, original_tier, current_tier, iters,
                   in_except, ua_tmp, attempted, response, rd_pc, rd_seen, mon_pc>>

\* app.py:177
CountTotals(r) ==
    /\ pc[r] = "ua_177"
    /\ _analytics' = [_analytics EXCEPT !.total_calls = @ + 1]
    /\ Goto(r, "ua_178")
    /\ UNCHANGED <<now, tier_config, clock_env, _zip_cache, _call_history, _call_counts, count_dict,
                   data_lock, body, call_data, zip_data, original_tier, current_tier,
                   iters, in_except, ua_tmp, attempted, response, rd_pc, rd_seen, mon_pc>>

\* variant: the failure is counted after the keyed stats of line 183, so a
\* call_data without "tier" raises before failed_calls is reached
CountOutcomeFailedLate(r) ==
    /\ pc[r] = "ua_178"
    /\ _analytics' =
          [_analytics EXCEPT
              !.successful_calls = IF call_data[r].status = "success" THEN @ + 1 ELSE @,
              !.failed_calls = IF call_data[r].status = "success"
                                  \/ call_data[r].tier = Absent THEN @ ELSE @ + 1]
    /\ Goto(r, "ua_183")
    /\ UNCHANGED <<now, tier_config, clock_env, _zip_cache, _call_history, _call_counts, count_dict,
                   data_lock, body, call_data, zip_data, original_tier, current_tier,
                   iters, in_except, ua_tmp, attempted, response, rd_pc, rd_seen, mon_pc>>

\* app.py:178-181
CountOutcome(r) ==
    /\ pc[r] = "ua_178"
    /\ _analytics' =
          [_analytics EXCEPT
              !.successful_calls = IF call_data[r].status = "success" THEN @ + 1 ELSE @,
              !.failed_calls = IF call_data[r].status = "success" THEN @ ELSE @ + 1]
    /\ Goto(r, "ua_183")
    /\ UNCHANGED <<now, tier_config, clock_env, _zip_cache, _call_history, _call_counts, count_dict,
                   data_lock, body, call_data, zip_data, original_tier, current_tier,
                   iters, in_except, ua_tmp, attempted, response, rd_pc, rd_seen, mon_pc>>

\* app.py:183
CountTier(r) ==
    /\ pc[r] = "ua_183"
    /\ call_data[r].tier # Absent
    /\ _analytics' = [_analytics EXCEPT !.tier_stats[call_data[r].tier] = @ + 1]
    /\ Goto(r, "ua_184")
    /\ UNCHANGED <<now, tier_config, clock_env, _zip_cache, _call_history, _call_counts, count_dict,
                   data_lock, body, call_data, zip_data, original_tier, current_tier,
                   iters, in_except, ua_tmp, attempted, response, rd_pc, rd_seen, mon_pc>>

\* app.py:184
CountHour(r) ==
    /\ pc[r] = "ua_184"
    /\ _analytics' = [_analytics EXCEPT !.hourly_stats[ServerHour(now)] = @ + 1]
    /\ Goto(r, "ua_185")
    /\ UNCHANGED <<now, tier_config, clock_env, _zip_cache, _call_history, _call_counts, count_dict,
                   data_lock, body, call_data, zip_data, original_tier, current_tier,
                   iters, in_except, ua_tmp, attempted, response, rd_pc, rd_seen, mon_pc>>

\* app.py:185
CountZip(r) ==
    /\ pc[r] = "ua_185"
    /\ _analytics' = [_analytics EXCEPT !.zip_stats[call_data[r].zip_code] = @ + 1]
    /\ Goto(r, "ua_188")
    /\ UNCHANGED <<now, tier_config, clock_env, _zip_cache, _call_history, _call_counts, count_dict,
                   data_lock, body, call_data, zip_data, original_tier, current_tier,
                   iters, in_except, ua_tmp, attempted, response, rd_pc, rd_seen, mon_pc>>

\* variant: the KeyError leaves update_analytics without releasing the lock
KeyErrorKeepsLock(r) ==
    /\ pc[r] = "ua_183"
    /\ call_data[r].tier = Absent
    /\ ~in_except[r]
    /\ Goto(r, "except")
    /\ UNCHANGED <<now, tier_config, clock_env, _zip_cache, _call_history, _call_counts, count_dict, _analytics,
                   data_lock, body, call_data, zip_data, original_tier, current_tier,
                   iters, in_except, ua_tmp, attempted, response, rd_pc, rd_seen, mon_pc>>

\* app.py:183 on a call_data without "tier": KeyError leaves the with block,
\* into the except block of handle_call when raised inside its try (426, 435)
KeyErrorInTry(r) ==
    /\ pc[r] = "ua_183"
    /\ call_data[r].tier = Absent
    /\ ~in_except[r]
    /\ data_lock' = 0
    /\ Goto(r, "except")
    /\ UNCHANGED <<now, tier_config, clock_env, _zip_cache, _call_history, _call_counts, count_dict, _analytics, body,
                   call_data, zip_data, original_tier, current_tier, iters,
                   in_except, ua_tmp, attempted, response, rd_pc, rd_seen, mon_pc>>

\* the same KeyError raised from the except block (553): it leaves handle_call
KeyErrorInExcept(r) ==
    /\ pc[r] = "ua_183"
    /\ call_data[r].tier = Absent
    /\ in_except[r]
    /\ data_lock' = 0
    /\ response' = [response EXCEPT ![r] = 500]
    /\ Goto(r, "done")
    /\ UNCHANGED <<now, tier_config, clock_env, _zip_cache, _call_history, _call_counts, count_dict, _analytics, body,
                   call_data, zip_data, original_tier, current_tier, iters,
                   in_except, ua_tmp, attempted, rd_pc, rd_seen, mon_pc>>

\* positions inside the factory call of a subscript of _call_counts
InFactory == {"gb_orig_factory", "gb_loop_factory", "flags_factory", "ua_189_factory"}

\* the key whose lookup sent thread r into the factory
FactoryKey(r) ==
    CASE pc[r] = "gb_orig_factory" -> original_tier[r]
      [] pc[r] = "gb_loop_factory" -> FallbackOf(current_tier[r])
      [] pc[r] \in {"flags_factory", "ua_189_factory"} -> call_data[r].tier

\* app.py:53 reached from 149 or 189: the factory returns, __missing__ stores
\* the new dict under the key, and the statement that made the lookup goes on
\* with the new, empty dict
DictFactoryReturns(r) ==
    /\ pc[r] \in InFactory
    /\ StoreNewDict(FactoryKey(r), DictBy("worker", r))
    /\ CASE pc[r] = "gb_orig_factory" ->
                /\ OriginalRated(r, rate_limit_ok(original_tier[r], 0))
                /\ UNCHANGED ua_tmp
         [] pc[r] = "gb_loop_factory" ->
                /\ FallbackRated(r, rate_limit_ok(FallbackOf(current_tier[r]), 0))
                /\ UNCHANGED ua_tmp
         [] pc[r] = "flags_factory" ->
                /\ FlagsRated(r, rate_limit_ok(call_data[r].tier, 0))
                /\ UNCHANGED <<current_tier, ua_tmp>>
         [] pc[r] = "ua_189_factory" ->
                /\ ua_tmp' = [ua_tmp EXCEPT ![r].count = 0,
                                            ![r].dict = DictBy("worker", r)]
                /\ Goto(r, "ua_189")
                /\ UNCHANGED <<call_data, current_tier>>
    /\ UNCHANGED <<now, tier_config, clock_env, _zip_cache, _call_history, _analytics,
                   data_lock, body, zip_data, original_tier, iters, in_except,
                   attempted, response, rd_pc, rd_seen, mon_pc>>

\* app.py:188-189: the clock hour is taken, the tier's dict fetched from
\* _call_counts and the counter read from it; a missing key sends the thread
\* into the factory of app.py:53
ReadCount(r) ==
    /\ pc[r] = "ua_188"
    /\ IF Missing(call_data[r].tier)
       THEN /\ ua_tmp' = [ua_tmp EXCEPT ![r] =
                             [current_hour |-> ServerHour(now), count |-> 0,
                              dict |-> NoDict]]
            /\ Goto(r, "ua_189_factory")
       ELSE /\ ua_tmp' = [ua_tmp EXCEPT ![r] =
                             [current_hour |-> ServerHour(now),
                              count |-> _call_counts[call_data[r].tier][ServerHour(now)],
                              dict |-> count_dict[call_data[r].tier]]]
            /\ Goto(r, "ua_189")
    /\ UNCHANGED <<now, tier_config, clock_env, shared, body, call_data, zip_data, original_tier,
                   current_tier, iters, in_except, attempted, response, rd_pc, rd_seen, mon_pc>>

\* app.py:189: the incremented counter is stored into the dict fetched; the
\* store does not show in _call_counts when the key has been bound to
\* another dict since
WriteCount(r) ==
    /\ pc[r] = "ua_189"
    /\ _call_counts' =
          IF count_dict[call_data[r].tier] = ua_tmp[r].dict
          THEN [_call_counts EXCEPT
                   ![call_data[r].tier][ua_tmp[r].current_hour] = ua_tmp[r].count + 1]
          ELSE _call_counts
    /\ Goto(r, "ua_192")
    /\ UNCHANGED <<now, tier_config, clock_env, _zip_cache, _call_history, count_dict, _analytics, data_lock, body,
                   call_data, zip_data, original_tier, current_tier, iters,
                   in_except, ua_tmp, attempted, response, rd_pc, rd_seen, mon_pc>>

\* variant: a full deque drops its newest entry to make room
DequeAppendDropsNewest(q, x) ==
    IF Len(q) >= HISTORY_MAXLEN
    THEN Append(SubSeq(q, 1, Len(q) - 1), x)
    ELSE Append(q, x)

\* deque(maxlen).append: the oldest entry is dropped when the deque is full
DequeAppend(q, x) ==
    IF Len(q) >= HISTORY_MAXLEN THEN Append(Tail(q), x) ELSE Append(q, x)

\* app.py:192, the end of the with block, and handle_call's return
AppendHistory(r) ==
    /\ pc[r] = "ua_192"
    /\ _call_history' = DequeAppend(_call_history, call_data[r])
    /\ data_lock' = 0
    /\ Goto(r, "done")
    /\ UNCHANGED <<now, tier_config, clock_env, _zip_cache, _call_counts, count_dict, _analytics, body, call_data,
                   zip_data, original_tier, current_tier, iters, in_except,
                   ua_tmp, attempted, response, rd_pc, rd_seen, mon_pc>>

(***************************************************************************)
(* get_analytics, app.py:362-381.  It takes no lock.  dict(_analytics) is  *)
(* a shallow copy: the scalars are copied at 367, the nested tier_stats    *)
(* are read when jsonify serialises them at 366, after 369.                *)
(***************************************************************************)
SumTierStats == 
    _analytics.tier_stats["tier_1"] + _analytics.tier_stats["tier_2"]
    + _analytics.tier_stats["tier_3"] + _analytics.tier_stats["none"]

\* app.py:367
ReadTotals ==
    /\ rd_pc \in {"idle", "done"}
    /\ rd_seen' = [total_calls |-> _analytics.total_calls, counted |-> 0,
                   history_len |-> 0]
    /\ rd_pc' = "rd_369"
    /\ UNCHANGED <<now, tier_config, clock_env, shared, pc, body, call_data, zip_data, original_tier,
                   current_tier, iters, in_except, ua_tmp, attempted, response, mon_pc>>

\* app.py:369
ReadHistoryLen ==
    /\ rd_pc = "rd_369"
    /\ rd_seen' = [rd_seen EXCEPT !.history_len = Len(_call_history)]
    /\ rd_pc' = "rd_373"
    /\ UNCHANGED <<now, tier_config, clock_env, shared, pc, body, call_data, zip_data, original_tier,
                   current_tier, iters, in_except, ua_tmp, attempted, response, mon_pc>>

\* app.py:370-377: tier_status subscripts _call_counts with every tier in
\* turn (149 from 373, then 374); the first tier whose key is missing sends
\* the request into the factory of app.py:53
ReaderProbe ==
    /\ rd_pc = "rd_373"
    /\ \E t \in Tiers :
          /\ Missing(t)
          /\ \A u \in TiersBefore(t) : ~Missing(u)
          /\ rd_pc' = FactoryAt(t)
    /\ UNCHANGED <<now, tier_config, clock_env, shared, pc, body, call_data, zip_data,
                   original_tier, current_tier, iters, in_except, ua_tmp, attempted,
                   response, rd_seen, mon_pc>>

\* app.py:53 reached from 373: the factory returns and __missing__ stores the
\* new dict under the key
ReaderFactoryReturns ==
    /\ \E t \in Tiers :
          /\ rd_pc = FactoryAt(t)
          /\ StoreNewDict(t, DictBy("analytics", 0))
    /\ rd_pc' = "rd_373"
    /\ UNCHANGED <<now, tier_config, clock_env, _zip_cache, _call_history, _analytics,
                   data_lock, pc, body, call_data, zip_data, original_tier,
                   current_tier, iters, in_except, ua_tmp, attempted, response,
                   rd_seen, mon_pc>>

\* app.py:366: tier_status is complete, the response is serialised
ReadTierStats ==
    /\ rd_pc = "rd_373"
    /\ \A t \in Tiers : ~Missing(t)
    /\ rd_seen' = [rd_seen EXCEPT !.counted = SumTierStats]
    /\ rd_pc' = "done"
    /\ UNCHANGED <<now, tier_config, clock_env, shared, pc, body, call_data, zip_data, original_tier,
                   current_tier, iters, in_except, ua_tmp, attempted, response, mon_pc>>

(***************************************************************************)
(* health_check (app.py:383-405) and dashboard (app.py:204-360) call       *)
(* load_all_zip_data at 387 and 324 outside any /call-event request.       *)
(***************************************************************************)
\* app.py:387 / 324 with 105: the cache is None, the monitor goes on to
\* download (with a cache, 106 returns it and nothing changes)
MonitorLoad ==
    /\ mon_pc = "idle"
    /\ _zip_cache.is_none
    /\ mon_pc' = "download"
    /\ UNCHANGED <<now, tier_config, clock_env, shared, pc, body, call_data, zip_data,
                   original_tier, current_tier, iters, in_except, ua_tmp, attempted,
                   response, rd_pc, rd_seen>>

\* app.py:108-126 called from 387 / 324: the cache is assigned
MonitorDownloadOk ==
    /\ mon_pc = "download"
    /\ \E d \in Datasets : _zip_cache' = Cached(d)
    /\ mon_pc' = "idle"
    /\ UNCHANGED <<now, tier_config, clock_env, _call_history, _call_counts, count_dict, _analytics,
                   data_lock, pc, body, call_data, zip_data, original_tier,
                   current_tier, iters, in_except, ua_tmp, attempted, response,
                   rd_pc, rd_seen>>

\* app.py:128-130 called from 387 / 324: an empty index is returned
MonitorDownloadFails ==
    /\ mon_pc = "download"
    /\ mon_pc' = "idle"
    /\ UNCHANGED <<now, tier_config, clock_env, shared, pc, body, call_data, zip_data,
                   original_tier, current_tier, iters, in_except, ua_tmp, attempted,
                   response, rd_pc, rd_seen>>

\* app.py:396 (check_rate_limit, 149) and 336: health_check and dashboard
\* subscript _call_counts with every tier in turn; the first tier whose key
\* is missing sends the request into the factory of app.py:53
MonitorProbe ==
    /\ mon_pc = "idle"
    /\ \E t \in Tiers :
          /\ Missing(t)
          /\ \A u \in TiersBefore(t) : ~Missing(u)
          /\ mon_pc' = FactoryAt(t)
    /\ UNCHANGED <<now, tier_config, clock_env, shared, pc, body, call_data, zip_data,
                   original_tier, current_tier, iters, in_except, ua_tmp, attempted,
                   response, rd_pc, rd_seen>>

\* app.py:53 reached from 396 or 336: the factory returns and __missing__
\* stores the new dict under the key
MonitorFactoryReturns ==
    /\ \E t \in Tiers :
          /\ mon_pc = FactoryAt(t)
          /\ StoreNewDict(t, DictBy("monitor", 0))
    /\ mon_pc' = "idle"
    /\ UNCHANGED <<now, tier_config, clock_env, _zip_cache, _call_history, _analytics,
                   data_lock, pc, body, call_data, zip_data, original_tier,
                   current_tier, iters, in_except, ua_tmp, attempted, response,
                   rd_pc, rd_seen>>

\* the wall clock enters the next clock hour
Tick ==
    /\ now < MaxClock
    /\ now' = now + 1
    /\ UNCHANGED <<tier_config, clock_env, shared, pc, body, call_data, zip_data, original_tier,
                   current_tier, iters, in_except, ua_tmp, attempted, response,
                   rd_pc, rd_seen, mon_pc>>

Step(r) ==
    \/ Start(r)
    \/ LoadCached(r)
    \/ DownloadOk(r)
    \/ DownloadFails(r)
    \/ TryOriginal(r)
    \/ TryOriginalRate(r)
    \/ TryFallback(r)
    \/ TryFallbackRate(r)
    \/ LastResort(r)
    \/ RecordFlags(r)
    \/ RecordFlagsRate(r)
    \/ PostSuccess(r)
    \/ PostApiError(r)
    \/ PostRaises(r)
    \/ Except(r)
    \/ AcquireLock(r)
    \/ CountTotals(r)
    \/ CountOutcome(r)
    \/ CountTier(r)
    \/ CountHour(r)
    \/ CountZip(r)
    \/ KeyErrorInTry(r)
    \/ KeyErrorInExcept(r)
    \/ ReadCount(r)
    \/ DictFactoryReturns(r)
    \/ WriteCount(r)
    \/ AppendHistory(r)

\* concurrent worker threads, one request each, while the clock runs
Next ==
    \/ \E r \in Threads : Step(r)
    \/ Tick

Spec == Init /\ [][Next]_vars

\* concurrent worker threads, one request each, while /health and the
\* dashboard are being polled, within one clock hour
NextMonitor ==
    \/ \E r \in Threads : Step(r)
    \/ MonitorLoad
    \/ MonitorDownloadOk
    \/ MonitorDownloadFails
    \/ MonitorProbe
    \/ MonitorFactoryReturns

SpecMonitor == Init /\ [][NextMonitor]_vars

\* a single worker thread serving one request, the clock standing still
NextSeq == Step(1)

SpecSeq == InitSeq /\ [][NextSeq]_vars

\* a single worker thread serving one request while the clock runs
NextClock ==
    \/ Step(1)
    \/ Tick

SpecClock == InitClock /\ [][NextClock]_vars

\* a worker thread serving one request while /analytics is being polled
NextRead ==
    \/ Step(1)
    \/ ReadTotals
    \/ ReadHistoryLen
    \/ ReadTierStats
    \/ ReaderProbe
    \/ ReaderFactoryReturns

SpecRead == InitRead /\ [][NextRead]_vars

\* the worker thread keeps running, and requests.post returns or raises
\* within its timeout (app.py:495)
SpecSeqFair == InitSeqFair /\ [][NextSeq]_vars /\ WF_vars(NextSeq)

\* a single worker thread serving one request against a nearly full history
SpecHist == InitHist /\ [][NextSeq]_vars

\* a single worker thread serving one request under any configuration
SpecConfig == InitConfig /\ [][NextSeq]_vars

\* concurrent worker threads, one request each
NextLock == \E r \in Threads : Step(r)

\* concurrent worker threads, one request each, within one clock hour
SpecSameHour == InitSameHour /\ [][NextLock]_vars

\* every worker thread keeps being scheduled, and requests.get / requests.post
\* return or raise within their timeouts (app.py:110, 495)
SpecLockFair ==
    /\ InitLock
    /\ [][NextLock]_vars
    /\ \A r \in Threads : WF_vars(Step(r))

(***************************************************************************)
(* Vocabulary of the properties.                                           *)
(***************************************************************************)
Routed(r) == original_tier[r] # None

\* the tiers get_best_tier may return for original tier t, in chain order
Chain(t) == <<t>> \o ChainFrom(t)

\* tier t passes both gates now: inside its window and under its cap
PassesGates(t) ==
    /\ OpenAt(t, now)
    /\ _call_counts[t][ServerHour(now)] < Cap(t)

\* positions of Chain(t) whose tier passes both gates
PassingIn(t) == {i \in 1..Len(Chain(t)) : PassesGates(Chain(t)[i])}

FirstOf(S) == CHOOSE i \in S : \A j \in S : i <= j

\* records of the history that count towards tier t
HistCount(t) == Cardinality({i \in 1..Len(_call_history) : _call_history[i].tier = t})

\* records of the history left by request r
RecordsOf(r) == {i \in 1..Len(_call_history) : _call_history[i].req = r}

\* the traffic before the first state: its clock hour and its calls per tier
PriorHour ==
    IF Len(_call_history) > 0 /\ _call_history[1].req = 0
    THEN ServerHour(_call_history[1].timestamp)
    ELSE 0

PriorCount(t) ==
    Cardinality({i \in 1..Len(_call_history) :
                    _call_history[i].req = 0 /\ _call_history[i].tier = t})

\* request r has stored its increment of the rate counter (app.py:189)
Committed(r) ==
    \/ pc[r] = "ua_192"
    \/ pc[r] = "done" /\ call_data[r].tier # Absent

\* the increments requests have stored in bucket (t, h)
CommitsIn(t, h) ==
    Cardinality({r \in Threads :
                    /\ Committed(r)
                    /\ call_data[r].tier = t
                    /\ ua_tmp[r].current_hour = h})

NumTiers == Cardinality(Tiers)

OfferIds == {TIER_CONFIG[t].offer_id : t \in Tiers}

(***************************************************************************)
(* C1: every inbound request, whatever path it takes, leaves exactly one   *)
(* record in _call_history and raises total_calls by exactly one, so that  *)
(* a served request finds total_calls equal to the number of records.      *)
(* Stated as the claim has it; the code violates it on the paths whose     *)
(* call_data has no "tier" key.                                            *)
(***************************************************************************)
C1_RecordedExactlyOnce ==
    \A r \in Threads :
        pc[r] = "done" =>
            /\ Cardinality(RecordsOf(r)) = 1
            /\ _analytics.total_calls = Len(_call_history)

(***************************************************************************)
(* C2: a reader of /analytics never sees an aggregate that counts a call   *)
(* whose record is not in the history, nor a record not yet counted: what  *)
(* it read of total_calls, of tier_stats and of the history length agree.  *)
(* Stated for well-formed requests only, so that it does not rest on C1.   *)
(***************************************************************************)
C2_ReaderSeesWholeUpdates ==
    (rd_pc = "done" /\ \A r \in Threads : body[r].kind \in {"none", "ok"}) =>
        /\ rd_seen.total_calls = rd_seen.history_len
        /\ rd_seen.counted = rd_seen.history_len

(***************************************************************************)
(* C3: when get_best_tier returns and some tier of the chain original ->   *)
(* fallback -> ... is inside its window and under its cap, the tier it     *)
(* returned is the first such tier in chain order, and fallback_used tells *)
(* whether that tier differs from the original.                            *)
(***************************************************************************)
C3_FirstPassingTierChosen ==
    \A r \in Threads :
        (pc[r] = "flags" /\ PassingIn(original_tier[r]) # {}) =>
            LET i == FirstOf(PassingIn(original_tier[r]))
            IN  /\ call_data[r].tier = Chain(original_tier[r])[i]
                /\ call_data[r].fallback_used = (i # 1)

C3_Witness ==
    /\ pc[1] = "flags"
    /\ original_tier[1] = "tier_1"
    /\ ~PassesGates("tier_1")
    /\ ~PassesGates("tier_2")
    /\ call_data[1].tier = "tier_3"
    /\ call_data[1].fallback_used

(***************************************************************************)
(* C4: when every tier of the chain fails a gate, get_best_tier returns    *)
(* the original tier with fallback_used = false, and the call is then      *)
(* committed against the original tier's counter although that tier is     *)
(* closed or at its cap: the counter follows the recorded calls past the   *)
(* cap.                                                                    *)
(***************************************************************************)
C4_LastResortIsOriginal ==
    \A r \in Threads :
        /\ (pc[r] = "flags" /\ PassingIn(original_tier[r]) = {}) =>
              /\ call_data[r].tier = original_tier[r]
              /\ ~call_data[r].fallback_used
        /\ ( /\ pc[r] = "done"
             /\ Routed(r)
             /\ call_data[r].tier = original_tier[r]
             /\ \/ ~OpenAt(original_tier[r], now)
                \/ HistCount(original_tier[r]) > Cap(original_tier[r]) ) =>
              /\ ~call_data[r].fallback_used
              /\ _call_history[Len(_call_history)] = call_data[r]
              /\ _call_counts[original_tier[r]][ServerHour(now)]
                    = HistCount(original_tier[r])

C4_Witness ==
    /\ pc[1] = "done"
    /\ original_tier[1] = "tier_1"
    /\ call_data[1].tier = "tier_1"
    /\ ~call_data[1].fallback_used
    /\ OpenAt("tier_1", now)
    /\ _call_counts["tier_1"][ServerHour(now)] = Cap("tier_1") + 1

(***************************************************************************)
(* C5: once the ZIP is found in the index the handler goes on to post the  *)
(* bid request, with the offer id of a configured tier, whatever the gates *)
(* say; it never returns without having attempted it.                      *)
(***************************************************************************)
C5_NeverDropped ==
    /\ [](\A r \in Threads :
            /\ attempted[r] \subseteq OfferIds
            /\ (pc[r] = "done" /\ Routed(r)) => attempted[r] # {})
    /\ \A r \in Threads : Routed(r) ~> (attempted[r] # {})

C5_Witness ==
    /\ pc[1] = "done"
    /\ Routed(1)
    /\ ~call_data[1].business_hours_check
    /\ ~call_data[1].rate_limit_check
    /\ attempted[1] = {TIER_CONFIG[call_data[1].tier].offer_id}

(***************************************************************************)
(* C6: from every tier, following fallback_tier links reaches None without *)
(* visiting a tier twice, and the while loop of get_best_tier runs at most *)
(* as many iterations as there are tiers before it returns.                *)
(***************************************************************************)
RECURSIVE Hop(_, _)
\* the tier reached from t after n fallback_tier links (None once past the end)
Hop(t, n) == IF n = 0 \/ t = None THEN t ELSE Hop(FallbackOf(t), n - 1)

C6_ChainFiniteLoopBounded ==
    /\ \A t \in Tiers :
          /\ Hop(t, NumTiers) = None
          /\ \A i, j \in 0..NumTiers :
                (i < j /\ Hop(t, j) # None) => Hop(t, i) # Hop(t, j)
    /\ \A r \in Threads :
          /\ iters[r] <= NumTiers
          /\ pc[r] = "gb_loop" => current_tier[r] \in Tiers \cup {None}

C6_Witness ==
    /\ pc[1] = "flags"
    /\ original_tier[1] = "tier_1"
    /\ iters[1] = NumTiers

(***************************************************************************)
(* C7: a request that selected its tier because the rate check passed      *)
(* leaves that tier's current-hour counter at most max_calls_per_hour once *)
(* its call is committed.  Stated as the claim has it, for requests served *)
(* within one clock hour; check and increment are not atomic in the code.  *)
(***************************************************************************)
PassedCheck(r) ==
    /\ Routed(r)
    /\ call_data[r].fallback_used \/ iters[r] = 0

C7_CapBoundsAcceptedCalls ==
    \A r \in Threads :
        (pc[r] = "ua_192" /\ PassedCheck(r) /\ call_data[r].timestamp = now) =>
            _call_counts[call_data[r].tier][ua_tmp[r].current_hour]
                <= Cap(call_data[r].tier)

(***************************************************************************)
(* C8: probing never commits.  The rate counters change only when a        *)
(* request stores its increment, by exactly one and in the bucket of the   *)
(* tier that request chose; while a request is resolving and posting, and  *)
(* after it is served, the counters of every other tier, probed or not,    *)
(* are what earlier traffic left.  Stated as the claim has it; in the code *)
(* a probe of a tier whose key is missing from _call_counts stores a new   *)
(* empty dict under the key (defaultdict __missing__, app.py:53), after    *)
(* any calls another thread has counted there in the meantime.             *)
(***************************************************************************)
CountsOnlyByCommit ==
    \/ _call_counts' = _call_counts
    \/ \E r \in Threads :
          /\ pc[r] = "ua_189"
          /\ pc'[r] = "ua_192"
          /\ _call_counts' =
                [_call_counts EXCEPT
                    ![call_data[r].tier][ua_tmp[r].current_hour] = @ + 1]

OneIncrement(r) ==
    \A t \in Tiers : \A h \in Hours :
        _call_counts[t][h] =
            (IF h = PriorHour THEN PriorCount(t) ELSE 0)
            + (IF /\ Committed(r)
                  /\ t = call_data[r].tier
                  /\ h = ua_tmp[r].current_hour
               THEN 1 ELSE 0)

C8_ProbingNeverCommits ==
    /\ [][CountsOnlyByCommit]_vars
    /\ [](\A r \in Threads :
            (Routed(r) /\ pc[r] # "idle") =>
                /\ OneIncrement(r)
                /\ pc[r] = "done" => call_data[r].tier \in Tiers)

(***************************************************************************)
(* C9: no update of a rate counter is lost.  Under every interleaving of   *)
(* the workers' update_analytics calls, each (tier, hour) counter equals   *)
(* what earlier traffic left plus the number of requests that have stored  *)
(* an increment in that bucket.  Stated as the claim has it; the lookups   *)
(* at app.py:149 take no lock, and a dict they store under a missing key   *)
(* replaces the one a request inside the lock is incrementing.             *)
(***************************************************************************)
C9_NoLostUpdates ==
    LET hour == PriorHour
        prior == [t \in CountKeys |-> PriorCount(t)]
        stored == {r \in Threads : Committed(r)}
    IN  \A t \in CountKeys : \A h \in Hours :
            _call_counts[t][h] =
                (IF h = hour THEN prior[t] ELSE 0)
                + (IF stored = {} THEN 0 ELSE CommitsIn(t, h))

(***************************************************************************)
(* C10: whenever the wall clock enters a new clock hour, the count that    *)
(* check_rate_limit compares against the cap starts at 0 for every tier.   *)
(* Stated as the claim has it; the code keys the counter by hour of day    *)
(* and never clears it, so the next day's hour starts from the old count.  *)
(***************************************************************************)
C10_CounterResetsEachHour ==
    [][now' # now =>
          \A t \in Tiers : _call_counts'[t][ServerHour(now')] = 0]_vars

(***************************************************************************)
(* C11: the history never holds more than 10,000 records.  Every append    *)
(* puts the new record last and keeps the records before it in order; the  *)
(* length grows by one up to 10,000 and then stays, the record evicted     *)
(* being the oldest one.  Between calls the length is the smaller of the   *)
(* number of records appended and 10,000.                                  *)
(***************************************************************************)
Min(a, b) == IF a <= b THEN a ELSE b

\* no update_analytics call is in progress
Quiescent ==
    \A r \in Threads :
        pc[r] \notin {"ua_177", "ua_178", "ua_183", "ua_184", "ua_185", "ua_188",
                      "ua_189_factory", "ua_189", "ua_192"}

HistoryAppendStep ==
    _call_history' # _call_history =>
        LET old == _call_history
            new == _call_history'
            shift == Len(old) + 1 - Len(new)
        IN  /\ Len(new) = Min(Len(old) + 1, HISTORY_MAXLEN)
            /\ \E r \in Threads : pc[r] = "ua_192" /\ new[Len(new)] = call_data[r]
            /\ \A i \in 1..(Len(new) - 1) : new[i] = old[i + shift]

C11_HistoryBounded ==
    /\ [][HistoryAppendStep]_vars
    /\ [](Len(_call_history) <= HISTORY_MAXLEN)
    /\ [](Quiescent => Len(_call_history) = Min(SumTierStats, HISTORY_MAXLEN))

C11_Witness ==
    /\ pc[1] = "done"
    /\ SumTierStats = HISTORY_MAXLEN + 1
    /\ Len(_call_history) = HISTORY_MAXLEN
    /\ _call_history[1].zip_code = <<6,0,6,0,1>>
    /\ _call_history[HISTORY_MAXLEN] = call_data[1]

(***************************************************************************)
(* C12: once handle_call has looked its ZIP up in the index it was given,  *)
(* original_tier is a tier whose set holds the ZIP when there is one, and  *)
(* None when there is none; when several tiers hold the ZIP it is the      *)
(* first of them in the order tier_1, tier_2, tier_3.                      *)
(***************************************************************************)
\* handle_call has passed its lookup loop (app.py:450-454)
LookedUp(r) == body[r].kind = "ok" /\ pc[r] \notin {"idle", "load", "download"}

\* tiers of the index zd whose set holds zip
Holding(zd, zip) == {t \in Tiers : zip \in zd[t]}

Rank(t) == CHOOSE i \in 1..Len(TierOrder) : TierOrder[i] = t

C12_LookupFirstTier ==
    \A r \in Threads :
        LookedUp(r) =>
            LET H == Holding(zip_data[r], call_data[r].zip_code)
            IN  /\ H = {} => original_tier[r] = None
                /\ H # {} =>
                      /\ original_tier[r] \in H
                      /\ \A t \in H : Rank(original_tier[r]) <= Rank(t)

C12_Witness ==
    /\ LookedUp(1)
    /\ Holding(zip_data[1], call_data[1].zip_code) = {"tier_2", "tier_3"}
    /\ original_tier[1] = "tier_2"

(***************************************************************************)
(* C13: a request whose ZIP is in no tier of the index is served as a      *)
(* normal outcome.  It never posts a bid request and never enters the      *)
(* except block, its response is 200, it always reaches its return, and    *)
(* when it returns the history holds exactly one record of it, the last    *)
(* one, with status no_tier.                                               *)
(***************************************************************************)
NoTierFound(r) == LookedUp(r) /\ original_tier[r] = None

C13_NoTierIsNormalOutcome ==
    /\ [](\A r \in Threads :
            NoTierFound(r) =>
                /\ attempted[r] = {}
                /\ ~in_except[r]
                /\ response[r] = 200
                /\ call_data[r].status = "no_tier"
                /\ pc[r] = "done" =>
                      /\ Cardinality(RecordsOf(r)) = 1
                      /\ _call_history[Len(_call_history)] = call_data[r])
    /\ \A r \in Threads : NoTierFound(r) ~> (pc[r] = "done")

C13_Witness ==
    /\ pc[1] = "done"
    /\ NoTierFound(1)
    /\ ~_zip_cache.is_none
    /\ response[1] = 200
    /\ _call_history[Len(_call_history)].req = 1
    /\ _call_history[Len(_call_history)].status = "no_tier"

(***************************************************************************)
(* C14: a load that fails changes nothing and is not fatal.  The step in   *)
(* which load_all_zip_data fails leaves _zip_cache as it was, hands        *)
(* handle_call the empty index instead of raising, and the lookup that     *)
(* follows finds no tier in it; the cache is never an index that no        *)
(* successful load produced.                                               *)
(***************************************************************************)
\* the step of thread r in which its download or parse fails (app.py:128-130)
LoadFailsStep(r) ==
    /\ pc[r] = "download"
    /\ pc'[r] # "download"
    /\ zip_data'[r] = EmptyIndex

FailedLoadHarmless ==
    \A r \in Threads :
        LoadFailsStep(r) =>
            /\ _zip_cache' = _zip_cache
            /\ pc'[r] = "ua_lock"
            /\ ~in_except'[r]
            /\ original_tier'[r] = None
            /\ call_data'[r].status = "no_tier"

C14_FailedLoadLeavesCache ==
    /\ [][FailedLoadHarmless]_vars
    /\ [](_zip_cache.is_none \/ _zip_cache.tier_data \in Datasets)

C14_Witness ==
    /\ pc[1] = "ua_lock"
    /\ body[1].kind = "ok"
    /\ zip_data[1] = EmptyIndex
    /\ original_tier[1] = None
    /\ _zip_cache = Cached(DatasetB)
    /\ call_data[1].zip_code \in DatasetB["tier_1"]

(***************************************************************************)
(* C15: the routing decision is final before the bid request.  A request   *)
(* posts only in the step that leaves its post position and never comes    *)
(* back to that position or to the resolver, whatever the answer was; the  *)
(* tier it holds from then on is the one get_best_tier returned (the first *)
(* tier of the chain passing both gates, else the original tier), and that *)
(* tier is the one in its record and the one whose counter it increments.  *)
(***************************************************************************)
\* the tier get_best_tier owes a request of original tier t in this state
BestTier(t) ==
    IF PassingIn(t) = {} THEN t ELSE Chain(t)[FirstOf(PassingIn(t))]

\* positions of handle_call from the bid request to the counter update
Decided ==
    {"post", "except", "ua_lock", "ua_177", "ua_178", "ua_183", "ua_184", "ua_185",
     "ua_188", "ua_189_factory", "ua_189"}

FinalAfterDecision ==
    \A r \in Threads :
        /\ attempted'[r] # attempted[r] => (pc[r] = "post" /\ pc'[r] # "post")
        /\ (Routed(r) /\ pc[r] \in Decided \cup {"ua_192", "done"}) =>
              /\ pc'[r] \notin {"gb_orig", "gb_orig_rate", "gb_orig_factory", "gb_loop",
                              "gb_loop_rate", "gb_loop_factory", "flags", "flags_rate",
                              "flags_factory"}
              /\ pc[r] # "post" => pc'[r] # "post"
              /\ call_data'[r].tier = call_data[r].tier
        /\ (Routed(r) /\ pc[r] = "ua_189" /\ pc'[r] = "ua_192") =>
              _call_counts' =
                 [_call_counts EXCEPT
                     ![call_data[r].tier][ServerHour(now)] = @ + 1]

C15_RoutingFinalBeforeCall ==
    /\ [][FinalAfterDecision]_vars
    /\ [](\A r \in Threads :
            /\ (Routed(r) /\ pc[r] \in Decided) =>
                  call_data[r].tier = BestTier(original_tier[r])
            /\ (Routed(r) /\ pc[r] = "done") =>
                  /\ Cardinality(RecordsOf(r)) = 1
                  /\ \A i \in RecordsOf(r) : _call_history[i].tier = call_data[r].tier)

C15_Witness ==
    /\ pc[1] = "done"
    /\ original_tier[1] = "tier_1"
    /\ call_data[1].tier = "tier_2"
    /\ call_data[1].status \in {"api_error", "exception"}
    /\ attempted[1] # {}
    /\ PassesGates("tier_3")
    /\ _call_history[Len(_call_history)] = call_data[1]
    /\ _call_counts["tier_2"][ServerHour(now)] = PriorCount("tier_2") + 1
    /\ _call_counts["tier_3"][ServerHour(now)] = PriorCount("tier_3")

(***************************************************************************)
(* C16: no request is routed under a malformed configuration: whenever a   *)
(* request has found its tier and is being routed, every tier's window has *)
(* start < end and no fallback chain comes back to a tier it has visited.  *)
(* Stated as the claim has it; the code never validates TIER_CONFIG.       *)
(***************************************************************************)
RECURSIVE HopIn(_, _, _)
\* the tier reached in configuration cfg from t after n fallback_tier links
HopIn(cfg, t, n) ==
    IF n = 0 \/ t = None THEN t ELSE HopIn(cfg, cfg[t].fallback_tier, n - 1)

WellFormedConfig(cfg) ==
    \A t \in DOMAIN cfg :
        /\ cfg[t].hours.start < cfg[t].hours.end
        /\ cfg[t].fallback_tier \in DOMAIN cfg \cup {None}
        /\ HopIn(cfg, t, Cardinality(DOMAIN cfg)) = None

C16_MalformedConfigRejected ==
    \A r \in Threads :
        (Routed(r) /\ pc[r] # "idle") => WellFormedConfig(tier_config)

(***************************************************************************)
(* C17: the gates fail open.  A tier whose business-hours evaluation       *)
(* raises counts as open and a tier whose rate check raises counts as      *)
(* allowed: when such a tier passes its other gate the resolver does not   *)
(* go past it, the flags recorded for it are true, and the error never     *)
(* reaches handle_call's except block.                                     *)
(***************************************************************************)
\* evaluating the window of t raises: pytz does not know its zone
HoursRaise(t) == tier_config[t].timezone \notin KnownZones

\* evaluating the rate check of t raises: its cap entry is missing
RateRaises(t) == "max_calls_per_hour" \notin DOMAIN tier_config[t]

WindowOpen(t) ==
    LET h == LocalHour(now, tier_config[t].timezone)
    IN  tier_config[t].hours.start <= h /\ h < tier_config[t].hours.end

UnderCap(t) == _call_counts[t][ServerHour(now)] < tier_config[t].max_calls_per_hour

\* a gate of t raises, and t passes the gate that does not raise
PassesByFailingOpen(t) ==
    \/ HoursRaise(t) /\ (RateRaises(t) \/ UnderCap(t))
    \/ RateRaises(t) /\ (HoursRaise(t) \/ WindowOpen(t))

C17_GatesFailOpen ==
    \A r \in Threads :
        /\ (Routed(r) /\ attempted[r] = {}) => (pc[r] # "except" /\ ~in_except[r])
        /\ pc[r] = "flags" =>
              \A i \in 1..Len(Chain(original_tier[r])) :
                  PassesByFailingOpen(Chain(original_tier[r])[i]) =>
                      \E j \in 1..i : call_data[r].tier = Chain(original_tier[r])[j]
        /\ pc[r] = "post" =>
              /\ HoursRaise(call_data[r].tier) => call_data[r].business_hours_check
              /\ RateRaises(call_data[r].tier) => call_data[r].rate_limit_check

C17_Witness ==
    /\ pc[1] = "post"
    /\ HoursRaise("tier_1")
    /\ \A t \in Tiers \ {"tier_1"} : ~WindowOpen(t)
    /\ original_tier[1] = "tier_1"
    /\ call_data[1].tier = "tier_1"
    /\ ~call_data[1].fallback_used
    /\ iters[1] = 0
    /\ call_data[1].business_hours_check

(***************************************************************************)
(* C18: once _zip_cache holds a snapshot, no step replaces it with another *)
(* one.  Stated as the claim has it; the test at app.py:105 and the        *)
(* assignment at 125 are not one step, so two first-time loaders both      *)
(* download and the later assignment replaces the earlier snapshot.        *)
(***************************************************************************)
C18_CacheNeverReplaced ==
    [][~_zip_cache.is_none => _zip_cache' = _zip_cache]_vars

(***************************************************************************)
(* C19: the gate flags of a record are what the resolver saw.  A request   *)
(* whose tier was returned because it passed both gates (the original tier *)
(* at the first test, or a fallback tier) carries business_hours_check and *)
(* rate_limit_check true; in particular every record with fallback_used    *)
(* has both flags true.  Stated as the claim has it; the code evaluates    *)
(* the gates a second time at app.py:472-473, after the resolver returned. *)
(***************************************************************************)
FlagsRecorded(r) ==
    /\ Routed(r)
    /\ pc[r] \notin {"idle", "load", "download", "gb_orig", "gb_orig_rate",
                     "gb_orig_factory", "gb_loop", "gb_loop_rate", "gb_loop_factory",
                     "flags", "flags_rate", "flags_factory"}

C19_FlagsAreResolverResults ==
    /\ \A r \in Threads :
          (FlagsRecorded(r) /\ PassedCheck(r)) =>
              /\ call_data[r].business_hours_check
              /\ call_data[r].rate_limit_check
    /\ \A i \in 1..Len(_call_history) :
          _call_history[i].fallback_used =>
              /\ _call_history[i].business_hours_check
              /\ _call_history[i].rate_limit_check

(***************************************************************************)
(* C20: whenever no update_analytics call is in progress, successful_calls *)
(* plus failed_calls equals total_calls, whatever paths the requests took, *)
(* the calls that raised at line 183 included.                             *)
(***************************************************************************)
C20_TotalsAddUp ==
    Quiescent =>
        _analytics.successful_calls + _analytics.failed_calls = _analytics.total_calls

C20_Witness ==
    /\ \A r \in Threads : pc[r] = "done"
    /\ body[1].kind = "empty"
    /\ in_except[1]
    /\ RecordsOf(1) = {}
    /\ call_data[2].status = "success"
    /\ _analytics.failed_calls = 2
    /\ _analytics.total_calls = _analytics.successful_calls + 2

(***************************************************************************)
(* C21: data_lock is never left held.  Only a thread between the acquire   *)
(* and the end of update_analytics' with block holds it, a call that       *)
(* returns or raises has released it, every request waiting at the acquire *)
(* eventually gets the lock, and every holder eventually gives it up.      *)
(***************************************************************************)
\* positions inside the with block of update_analytics (app.py:177-192)
InWith ==
    {"ua_177", "ua_178", "ua_183", "ua_184", "ua_185", "ua_188", "ua_189_factory",
     "ua_189", "ua_192"}

C21_LockNeverLeftHeld ==
    /\ [](\A r \in Threads : (data_lock = r) <=> (pc[r] \in InWith))
    /\ \A r \in Threads : (pc[r] = "ua_lock") ~> (data_lock = r)
    /\ \A r \in Threads : (data_lock = r) ~> (data_lock # r)
    /\ \A r \in Threads : (pc[r] = "ua_lock") ~> (pc[r] = "done")

C21_Witness ==
    /\ pc[1] = "done"
    /\ in_except[1]
    /\ call_data[1].tier = Absent
    /\ RecordsOf(1) = {}
    /\ data_lock = 2
    /\ in_except[2]
    /\ call_data[2].tier = Absent

====
